---- MODULE Spec2Model ----
(***************************************************************************)
(* SensiPlan rule engine: the mucus and temperature shift evaluators, the  *)
(* cycle start resolver and the fertility status combinator, as operators  *)
(* over the list of daily entries of one cycle, and the state machine that *)
(* records entries day by day and calls the engine's entry points.         *)
(*                                                                         *)
(* Temperatures are the two-decimal readings of types.ts, held as integer  *)
(* hundredths of a degree (3620 is the reading 36.20).  The engine holds   *)
(* them as IEEE-754 doubles; order and maximum of two-decimal readings are *)
(* the same in both, the sum coverLine + 0.2 is not (see HighEnough).      *)
(***************************************************************************)
EXTENDS Integers, Sequences, FiniteSets, TLC

VARIABLES
    entries,     \* the entries of the current cycle, as getEntriesByCycle returns them
    profile,     \* the user profile
    peakDay,     \* result of findPeakDay on entries
    mucusEval,   \* result of evaluateMucusShift on entries
    tempEval,    \* result of evaluateTemperatureShift on entries
    cycleStartResult, \* result of determineCycleStart on profile, entries
    currentDay,  \* the day argument of the call status is the result of
    status,      \* result of calculateFertilityStatus on entries, currentDay, profile
    repeated,    \* result of a second calculateFertilityStatus call on the same arguments
    recorded,    \* every first higher temperature day recorded so far, oldest first
    passedIn,    \* the profile object passed to the last updateEarliestFirstHigherTemp call
    dbEntries,   \* the entries table of the database
    saveCalls,   \* the saveEntry calls: position, argument and looked up entry of each
    dbCycles,    \* the cycles table of the database
    cycleCalls,  \* the createCycle calls: position, argument and values read of each
    clock        \* the time new Date() gives

\* the state of the rule engine's callers
engineVars == <<entries, currentDay, peakDay, mucusEval, tempEval, cycleStartResult, status>>

\* the objects handed to and returned by repeated calls
callVars == <<repeated, recorded, passedIn>>

\* the tables of the database and the calls in progress on them
dbVars == <<dbEntries, saveCalls, dbCycles, cycleCalls, clock>>

vars == <<engineVars, profile, callVars, dbVars>>

-----------------------------------------------------------------------------
(* Bounds of the model                                                     *)

\* last cycle day recorded in the mucus specification
MaxMucusDay == 6

\* last cycle day recorded in the cycle start specification
MaxStartDay == 4

\* last cycle day recorded in the temperature specification
MaxTempDay == 10

\* last cycle day recorded, and evaluated, in the full specification
MaxDay == 10

\* longest list handed to the engine in arbitrary order
MaxPureLen == 3

\* calls of one storage function that are in progress together
MaxCallers == 2

\* cycles closed, one updateEarliestFirstHigherTemp call each
MaxUpdates == 3

-----------------------------------------------------------------------------
(* Values absent in the source (undefined, null)                           *)

NoTemp == 0

NoDay == 0

NoMucus == "none"

NoReason == "undefined"

\* a result variable: no call of the entry point on the current list yet, or
\* the value its call returned
NotCalled == [called |-> FALSE]

Returned(v) == [called |-> TRUE, value |-> v]

-----------------------------------------------------------------------------
(* types.ts: mucus categories                                              *)

\* 'd' | 'ø' | 'm' | 'S' | 'S+'; the category ø is written "o"
MucusCategory == {"d", "o", "m", "S", "S+"}

MUCUS_QUALITY_ORDER == [c \in MucusCategory |->
    CASE c = "d" -> 0
      [] c = "o" -> 1
      [] c = "m" -> 2
      [] c = "S" -> 3
      [] c = "S+" -> 4]

compareMucusQuality(a, b) == MUCUS_QUALITY_ORDER[a] - MUCUS_QUALITY_ORDER[b]

-----------------------------------------------------------------------------
(* Array helpers of the source language                                    *)

\* Array.prototype.slice(from, to) with 0-based from (inclusive) and to
\* (exclusive), clipped to the array
Slice(s, from, to) ==
    LET hi == IF to < Len(s) THEN to ELSE Len(s)
    IN  IF from >= hi THEN <<>> ELSE [k \in 1..(hi - from) |-> s[from + k]]

\* Array.prototype.sort((a, b) => a.day - b.day): stable, ascending by day
RECURSIVE InsertByDay(_, _)
InsertByDay(s, x) ==
    IF s = <<>> THEN <<x>>
    ELSE IF s[Len(s)].day <= x.day THEN Append(s, x)
         ELSE Append(InsertByDay(SubSeq(s, 1, Len(s) - 1), x), s[Len(s)])

RECURSIVE SortByDay(_)
SortByDay(s) ==
    IF s = <<>> THEN <<>>
    ELSE InsertByDay(SortByDay(SubSeq(s, 1, Len(s) - 1)), s[Len(s)])

\* the days of a list of {day, ...} records, in order
Days(s) == [k \in 1..Len(s) |-> s[k].day]

-----------------------------------------------------------------------------
(* mucus.ts                                                                *)

POST_PEAK_DAYS_REQUIRED == 3

HasMucus(e) == e.mucusObservation # NoMucus

getMucusObservations(es) ==
    LET kept == SelectSeq(es, HasMucus)
    IN  SortByDay([k \in 1..Len(kept) |->
            [day |-> kept[k].cycleDay, mucus |-> kept[k].mucusObservation]])

RECURSIVE HighestFrom(_, _, _)
HighestFrom(observations, i, highest) ==
    IF i > Len(observations) THEN highest
    ELSE HighestFrom(observations, i + 1,
            IF compareMucusQuality(observations[i].mucus, highest) > 0
            THEN observations[i].mucus ELSE highest)

findHighestQuality(observations) ==
    IF Len(observations) = 0 THEN NoMucus
    ELSE HighestFrom(observations, 1, observations[1].mucus)

\* the loop of findPeakDay from index i on, lastDayWithHighest = last so far;
\* the value is what findPeakDay returns
RECURSIVE PeakLoop(_, _, _, _)
PeakLoop(observations, highestQuality, i, last) ==
    IF i > Len(observations) THEN NoDay
    ELSE LET current == observations[i]
             last2 == IF current.mucus = highestQuality THEN current.day ELSE last
         IN  IF /\ last2 # NoDay
                /\ current.day > last2
                /\ compareMucusQuality(current.mucus, highestQuality) < 0
             THEN last2
             ELSE PeakLoop(observations, highestQuality, i + 1, last2)

findPeakDay(es) ==
    LET observations == getMucusObservations(es)
    IN  IF Len(observations) < 2 THEN NoDay
        ELSE LET highestQuality == findHighestQuality(observations)
             IN  IF highestQuality = NoMucus THEN NoDay
                 ELSE PeakLoop(observations, highestQuality, 1, NoDay)

\* PostPeakLoop without the relapse branch: an observation of peak quality is
\* passed over instead of ending the count
RECURSIVE PostPeakLoopIgnoresRelapse(_, _, _, _)
PostPeakLoopIgnoresRelapse(postPeakObs, peakQuality, i, count) ==
    IF i > Len(postPeakObs) THEN [postPeakCount |-> count, peakQualityReturned |-> FALSE]
    ELSE IF compareMucusQuality(postPeakObs[i].mucus, peakQuality) >= 0
         THEN PostPeakLoopIgnoresRelapse(postPeakObs, peakQuality, i + 1, count)
         ELSE IF count + 1 >= POST_PEAK_DAYS_REQUIRED
              THEN [postPeakCount |-> count + 1, peakQualityReturned |-> FALSE]
              ELSE PostPeakLoopIgnoresRelapse(postPeakObs, peakQuality, i + 1, count + 1)

\* PostPeakLoop that stops one observation late (> for >=)
RECURSIVE PostPeakLoopCountsOn(_, _, _, _)
PostPeakLoopCountsOn(postPeakObs, peakQuality, i, count) ==
    IF i > Len(postPeakObs) THEN [postPeakCount |-> count, peakQualityReturned |-> FALSE]
    ELSE IF compareMucusQuality(postPeakObs[i].mucus, peakQuality) >= 0
         THEN [postPeakCount |-> count, peakQualityReturned |-> TRUE]
         ELSE IF count + 1 > POST_PEAK_DAYS_REQUIRED
              THEN [postPeakCount |-> count + 1, peakQualityReturned |-> FALSE]
              ELSE PostPeakLoopCountsOn(postPeakObs, peakQuality, i + 1, count + 1)

\* the counting loop of evaluateMucusShift from index i on
RECURSIVE PostPeakLoop(_, _, _, _)
PostPeakLoop(postPeakObs, peakQuality, i, count) ==
    IF i > Len(postPeakObs) THEN [postPeakCount |-> count, peakQualityReturned |-> FALSE]
    ELSE IF compareMucusQuality(postPeakObs[i].mucus, peakQuality) >= 0
         THEN [postPeakCount |-> count, peakQualityReturned |-> TRUE]
         ELSE IF count + 1 >= POST_PEAK_DAYS_REQUIRED
              THEN [postPeakCount |-> count + 1, peakQualityReturned |-> FALSE]
              ELSE PostPeakLoop(postPeakObs, peakQuality, i + 1, count + 1)

evaluateMucusShift(es) ==
    LET observations == getMucusObservations(es)
        none == [peakDay |-> NoDay, isShiftComplete |-> FALSE,
                 postPeakCount |-> 0, peakQualityReturned |-> FALSE]
    IN  IF Len(observations) = 0 THEN none
        ELSE LET peak == findPeakDay(es)
             IN  IF peak = NoDay THEN none
                 ELSE LET AtPeak(o) == o.day = peak
                          AfterPeak(o) == o.day > peak
                          found == SelectSeq(observations, AtPeak)
                      IN  IF found = <<>>
                          THEN [none EXCEPT !.peakDay = peak]
                          ELSE LET loop == PostPeakLoop(SelectSeq(observations, AfterPeak),
                                                        found[1].mucus, 1, 0)
                               IN  [peakDay |-> peak,
                                    isShiftComplete |->
                                        /\ loop.postPeakCount >= POST_PEAK_DAYS_REQUIRED
                                        /\ ~loop.peakQualityReturned,
                                    postPeakCount |-> loop.postPeakCount,
                                    peakQualityReturned |-> loop.peakQualityReturned]

\* a filter that takes 'nothing felt or seen' for dry
mucusAboveNothing(e) ==
    IF e.mucusObservation = NoMucus THEN FALSE ELSE e.mucusObservation \notin {"d", "o"}

mucusIndicatesFertility(e) ==
    IF e.mucusObservation = NoMucus THEN FALSE ELSE e.mucusObservation # "d"

-----------------------------------------------------------------------------
(* temperature.ts                                                          *)

\* 0.2 degrees, in hundredths
MIN_THIRD_TEMP_ELEVATION == 20

LOW_TEMP_COUNT == 6

HIGH_TEMP_COUNT == 3

\* The double coverLine + 0.2 against the double of the decimal reading that
\* is 0.20 above the coverline: for a two-decimal coverline c (in hundredths,
\* 32.00 <= c/100 < 63.80) the sum rounds to a double greater than that
\* reading exactly when c % 25 is one of these residues (36.2 + 0.2 is
\* 36.400000000000006), and to that reading's double otherwise.
SumRoundsUp(coverLine) == (coverLine % 25) \in {2, 3, 6, 9, 10, 13, 17, 20, 21, 24}

\* temp >= coverLine + MIN_THIRD_TEMP_ELEVATION, as the doubles compare
HighEnough(temp, coverLine) ==
    IF SumRoundsUp(coverLine)
    THEN temp > coverLine + MIN_THIRD_TEMP_ELEVATION
    ELSE temp >= coverLine + MIN_THIRD_TEMP_ELEVATION

\* the filter without the exclusion flag
HasTemperature(e) == e.temperature # NoTemp

IsValidTemperature(e) == e.temperature # NoTemp /\ ~e.temperatureExcluded

getValidTemperatures(es) ==
    LET kept == SelectSeq(es, IsValidTemperature)
    IN  SortByDay([k \in 1..Len(kept) |->
            [day |-> kept[k].cycleDay, temp |-> kept[k].temperature]])

RECURSIVE MaxFrom(_, _, _)
MaxFrom(temps, i, best) ==
    IF i > Len(temps) THEN best
    ELSE MaxFrom(temps, i + 1, IF temps[i].temp > best THEN temps[i].temp ELSE best)

maxTemp(temps) == IF Len(temps) = 0 THEN 0 ELSE MaxFrom(temps, 2, temps[1].temp)

\* the result every failing branch of the exception checks returns
NoShift(coverLine) ==
    [isShiftComplete |-> FALSE, coverLineTemp |-> coverLine, higherTempDays |-> <<>>,
     exceptionUsed |-> "none", cannotEvaluate |-> FALSE, cannotEvaluateReason |-> NoReason]

checkTemperatureRule(coverLine, highTemps) ==
    LET allAboveCoverLine == \A k \in 1..Len(highTemps) : highTemps[k].temp > coverLine
    IN  IF ~allAboveCoverLine THEN NoShift(coverLine)
        ELSE [isShiftComplete |-> HighEnough(highTemps[3].temp, coverLine),
              coverLineTemp |-> coverLine,
              higherTempDays |-> Days(highTemps),
              exceptionUsed |-> "none",
              cannotEvaluate |-> FALSE,
              cannotEvaluateReason |-> NoReason]

tryFirstException(coverLine, allTemps, startIndex) ==
    LET temps == Slice(allTemps, startIndex, startIndex + 4)
        firstThree == Slice(temps, 0, 3)
        allAbove == \A k \in 1..Len(firstThree) : firstThree[k].temp > coverLine
    IN  IF ~allAbove THEN NoShift(coverLine)
        ELSE IF HighEnough(temps[3].temp, coverLine) THEN NoShift(coverLine)
        ELSE IF temps[4].temp > coverLine
             THEN [isShiftComplete |-> TRUE,
                   coverLineTemp |-> coverLine,
                   higherTempDays |-> Days(temps),
                   exceptionUsed |-> "first",
                   cannotEvaluate |-> FALSE,
                   cannotEvaluateReason |-> NoReason]
             ELSE NoShift(coverLine)

trySecondException(coverLine, allTemps, startIndex) ==
    LET temps == Slice(allTemps, startIndex, startIndex + 3)
        AtOrBelow(t) == t.temp <= coverLine
        Above(t) == t.temp > coverLine
        belowOrEqual == SelectSeq(temps, AtOrBelow)
        aboveCoverLine == SelectSeq(temps, Above)
    IN  IF Len(belowOrEqual) # 1 THEN NoShift(coverLine)
        ELSE IF Len(aboveCoverLine) # 2 THEN NoShift(coverLine)
        ELSE IF HighEnough(temps[3].temp, coverLine)
             THEN [isShiftComplete |-> TRUE,
                   coverLineTemp |-> coverLine,
                   higherTempDays |-> Days(SelectSeq(temps, Above)),
                   exceptionUsed |-> "second",
                   cannotEvaluate |-> FALSE,
                   cannotEvaluateReason |-> NoReason]
             ELSE NoShift(coverLine)

tryExceptions(coverLine, allTemps, startIndex) ==
    LET first == IF startIndex + 4 <= Len(allTemps)
                 THEN tryFirstException(coverLine, allTemps, startIndex)
                 ELSE NoShift(coverLine)
        second == IF startIndex + 3 <= Len(allTemps)
                  THEN trySecondException(coverLine, allTemps, startIndex)
                  ELSE NoShift(coverLine)
    IN  IF first.isShiftComplete THEN first
        ELSE IF second.isShiftComplete THEN second
        ELSE NoShift(coverLine)

\* the window loop of evaluateTemperatureShift from baseline end index i on
\* a variant that scans the windows from the latest back to index i
WindowLoopFromLatest(temps, i) ==
    LET ResultAt(j) ==
            LET coverLine == maxTemp(Slice(temps, j - LOW_TEMP_COUNT, j))
                result == checkTemperatureRule(coverLine, Slice(temps, j, j + HIGH_TEMP_COUNT))
            IN  IF result.isShiftComplete THEN result
                ELSE tryExceptions(coverLine, temps, j)
        complete == {j \in i..(Len(temps) - HIGH_TEMP_COUNT) : ResultAt(j).isShiftComplete}
    IN  IF complete = {}
        THEN [isShiftComplete |-> FALSE, coverLineTemp |-> NoTemp, higherTempDays |-> <<>>,
              exceptionUsed |-> "none", cannotEvaluate |-> FALSE,
              cannotEvaluateReason |-> NoReason]
        ELSE ResultAt(CHOOSE j \in complete : \A k \in complete : k <= j)

RECURSIVE WindowLoop(_, _)
WindowLoop(temps, i) ==
    IF i > Len(temps) - HIGH_TEMP_COUNT
    THEN [isShiftComplete |-> FALSE, coverLineTemp |-> NoTemp, higherTempDays |-> <<>>,
          exceptionUsed |-> "none", cannotEvaluate |-> FALSE,
          cannotEvaluateReason |-> NoReason]
    ELSE LET lowTemps == Slice(temps, i - LOW_TEMP_COUNT, i)
             coverLine == maxTemp(lowTemps)
             potentialHighTemps == Slice(temps, i, i + HIGH_TEMP_COUNT)
             result == checkTemperatureRule(coverLine, potentialHighTemps)
             exceptionResult == tryExceptions(coverLine, temps, i)
         IN  IF result.isShiftComplete THEN result
             ELSE IF exceptionResult.isShiftComplete THEN exceptionResult
             ELSE WindowLoop(temps, i + 1)

\* <= where the source has <
evaluateTemperatureShiftOffByOne(es) ==
    LET temps == getValidTemperatures(es)
    IN  IF Len(temps) <= LOW_TEMP_COUNT + HIGH_TEMP_COUNT
        THEN [isShiftComplete |-> FALSE, coverLineTemp |-> NoTemp, higherTempDays |-> <<>>,
              exceptionUsed |-> "none", cannotEvaluate |-> TRUE,
              cannotEvaluateReason |-> "Pas assez de mesures de temperature"]
        ELSE WindowLoop(temps, LOW_TEMP_COUNT)

evaluateTemperatureShift(es) ==
    LET temps == getValidTemperatures(es)
    IN  IF Len(temps) < LOW_TEMP_COUNT + HIGH_TEMP_COUNT
        THEN [isShiftComplete |-> FALSE, coverLineTemp |-> NoTemp, higherTempDays |-> <<>>,
              exceptionUsed |-> "none", cannotEvaluate |-> TRUE,
              cannotEvaluateReason |-> "Pas assez de mesures de temperature"]
        ELSE WindowLoop(temps, LOW_TEMP_COUNT)

-----------------------------------------------------------------------------
(* cycle-start.ts                                                          *)

FIVE_DAY_RULE_DAYS == 5

MINUS_8_OFFSET == 8

MINUS_20_OFFSET == 20

MIN_CYCLES_FOR_MINUS_8 == 12

TRANSITION_THRESHOLD_DAY == 12

\* shortestCycleLength undefined
NoLength == 0

Max0(n) == IF n < 0 THEN 0 ELSE n

\* Math.min over a non-empty list of days
MinOf(days) == CHOOSE m \in {days[k] : k \in 1..Len(days)} :
                   \A k \in 1..Len(days) : m <= days[k]

HasEarlyTemp(prof) ==
    \E k \in 1..Len(prof.earliestFirstHigherTemps) :
        prof.earliestFirstHigherTemps[k] <= TRANSITION_THRESHOLD_DAY

canUseFiveDayRule(prof) ==
    IF prof.cycleCount >= MIN_CYCLES_FOR_MINUS_8 THEN FALSE
    ELSE ~HasEarlyTemp(prof)

\* the null applyMinus8Rule returns (a last infertile day is >= 0)
NotApplicable == -1

\* a rule that waits for twelve recorded cycles whatever their days
applyMinus8RuleNeedsTwelve(prof) ==
    IF Len(prof.earliestFirstHigherTemps) < MIN_CYCLES_FOR_MINUS_8
    THEN NotApplicable
    ELSE Max0(MinOf(prof.earliestFirstHigherTemps) - MINUS_8_OFFSET)

applyMinus8Rule(prof) ==
    IF /\ Len(prof.earliestFirstHigherTemps) < MIN_CYCLES_FOR_MINUS_8
       /\ ~HasEarlyTemp(prof)
    THEN NotApplicable
    ELSE Max0(MinOf(prof.earliestFirstHigherTemps) - MINUS_8_OFFSET)

RECURSIVE AdjustLoop(_, _, _)
AdjustLoop(lastInfertileDay, es, i) ==
    IF i > Len(es) THEN lastInfertileDay
    ELSE IF es[i].cycleDay <= lastInfertileDay /\ mucusIndicatesFertility(es[i])
         THEN Max0(es[i].cycleDay - 1)
         ELSE AdjustLoop(lastInfertileDay, es, i + 1)

\* a resolver without the mucus override
adjustNothing(lastInfertileDay, es) == lastInfertileDay

adjustForMucus(lastInfertileDay, es) == AdjustLoop(lastInfertileDay, es, 1)

applyMinus20Rule(shortestCycleLength) == Max0(shortestCycleLength - MINUS_20_OFFSET)

determineCycleStart(prof, es) ==
    LET minus8Day == applyMinus8Rule(prof)
        minus20Day == applyMinus20Rule(prof.shortestCycleLength)
        chosen ==
            IF minus8Day # NotApplicable
            THEN [rule |-> "minus-8", day |-> minus8Day]
            ELSE IF /\ canUseFiveDayRule(prof)
                    /\ prof.shortestCycleLength # NoLength
                    /\ minus20Day > FIVE_DAY_RULE_DAYS
                 THEN [rule |-> "minus-20", day |-> minus20Day]
                 ELSE [rule |-> "five-day", day |-> FIVE_DAY_RULE_DAYS]
        adjusted == adjustForMucus(chosen.day, es)
    IN  [rule |-> chosen.rule,
         lastInfertileDay |-> adjusted,
         fertilityStartsDay |-> adjusted + 1]

-----------------------------------------------------------------------------
(* updateEarliestFirstHigherTemp                                           *)

\* while (temps.length > MIN_CYCLES_FOR_MINUS_8) temps.shift()
RECURSIVE ShiftLoop(_)
ShiftLoop(temps) ==
    IF Len(temps) > MIN_CYCLES_FOR_MINUS_8 THEN ShiftLoop(Tail(temps)) ELSE temps

\* a variant that cuts the list at its end
updateEarliestKeepingOldest(prof, firstHigherTempDay) ==
    LET temps == Append(prof.earliestFirstHigherTemps, firstHigherTempDay)
    IN  [prof EXCEPT !.earliestFirstHigherTemps =
                         SubSeq(temps, 1, IF Len(temps) > MIN_CYCLES_FOR_MINUS_8
                                          THEN MIN_CYCLES_FOR_MINUS_8 ELSE Len(temps)),
                     !.cycleCount = @ + 1]

\* the profile returned; the one passed in is a value and stays as it is
updateEarliestFirstHigherTemp(prof, firstHigherTempDay) ==
    [prof EXCEPT !.earliestFirstHigherTemps = ShiftLoop(Append(@, firstHigherTempDay)),
                 !.cycleCount = @ + 1]

-----------------------------------------------------------------------------
(* fertility-status.ts                                                     *)

LONG_CYCLE_WARNING_DAYS == 60

AMENORRHEA_WARNING_DAYS == 90

\* the complete-day of an axis that cannot be evaluated
UnboundedDay == 999

\* Array.prototype.find(e => e.cycleDay === day): the indices that match
EntriesOfDay(es, day) == {k \in 1..Len(es) : es[k].cycleDay = day}

\* Math.min where the source has Math.max
EarlierOf(a, b) == IF a <= b THEN a ELSE b

\* Math.max
MaxOf(a, b) == IF a >= b THEN a ELSE b

\* && where the source has ||
BothPending(tEval, mEval) == ~tEval.isShiftComplete /\ ~mEval.isShiftComplete

\* the double-check test: at least one evaluation is not complete
doubleCheckPending(tEval, mEval) == ~tEval.isShiftComplete \/ ~mEval.isShiftComplete

FertilityStatus(st, ph, message, rulesApplied, dataPointsUsed, warnings) ==
    [status |-> st, phase |-> ph, rulesApplied |-> rulesApplied,
     dataPointsUsed |-> dataPointsUsed, explanation |-> message, warnings |-> warnings]

\* a variant that answers as the unused createIndeterminateStatus does
createIndeterminateInstead(ph, message, rulesApplied, dataPointsUsed, warnings) ==
    FertilityStatus("indeterminate", "fertile", message, rulesApplied, dataPointsUsed, warnings)

createFertileStatus(ph, message, rulesApplied, dataPointsUsed, warnings) ==
    FertilityStatus("fertile", ph, message, rulesApplied, dataPointsUsed, warnings)

\* a variant that reports every infertile verdict as fertile
createAlwaysFertile(ph, message, rulesApplied, dataPointsUsed, warnings) ==
    FertilityStatus("fertile", ph, message, rulesApplied, dataPointsUsed, warnings)

createInfertileStatus(ph, message, rulesApplied, dataPointsUsed, warnings) ==
    FertilityStatus("infertile", ph, message, rulesApplied, dataPointsUsed, warnings)

\* the day the temperature axis is complete
tempShiftCompleteDay(tEval) ==
    IF Len(tEval.higherTempDays) >= 3 THEN tEval.higherTempDays[3]
    ELSE IF Len(tEval.higherTempDays) >= 4 THEN tEval.higherTempDays[4]
    ELSE UnboundedDay

\* the day the mucus axis is complete
mucusShiftCompleteDay(mEval) ==
    IF mEval.peakDay # NoDay THEN mEval.peakDay + 3 ELSE UnboundedDay

\* the cycle argument of the source is not read and is left out
calculateFertilityStatus(es, day, prof) ==
    LET warnings0 ==
            IF day > AMENORRHEA_WARNING_DAYS THEN <<"AMENORRHEA">>
            ELSE IF day > LONG_CYCLE_WARNING_DAYS THEN <<"LONG_CYCLE">>
            ELSE <<>>
        cycleStart == determineCycleStart(prof, es)
        rules1 == << CASE cycleStart.rule = "five-day" -> "START_5DAY"
                       [] cycleStart.rule = "minus-8" -> "START_MINUS8"
                       [] OTHER -> "START_MINUS20" >>
        today == EntriesOfDay(es, day)
        todayEntry == es[CHOOSE k \in today : \A j \in today : k <= j]
        tEval == evaluateTemperatureShift(es)
        data3 == IF tEval.coverLineTemp # NoTemp
                 THEN <<[cycleDay |-> 0, field |-> "coverLine",
                         value |-> tEval.coverLineTemp]>>
                 ELSE <<>>
        rules3 == rules1 \o
                  (IF tEval.exceptionUsed # "none"
                   THEN << IF tEval.exceptionUsed = "first" THEN "TEMP_EX1" ELSE "TEMP_EX2" >>
                   ELSE IF tEval.isShiftComplete THEN <<"TEMP_MAIN">> ELSE <<>>)
        mEval == evaluateMucusShift(es)
        hasPeak == mEval.peakDay # NoDay
        rules4 == rules3 \o (IF hasPeak THEN <<"MUCUS_PEAK">> ELSE <<>>)
                         \o (IF mEval.peakQualityReturned THEN <<"MUCUS_RESTART">> ELSE <<>>)
        data4 == data3 \o
                 (IF hasPeak
                  THEN <<[cycleDay |-> mEval.peakDay, field |-> "peakDay",
                          value |-> mEval.peakDay]>>
                  ELSE <<>>)
        warnings4 == warnings0 \o
                     (IF mEval.peakQualityReturned THEN <<"PEAK_RETURNED">> ELSE <<>>)
        fertilityEndsDay == MaxOf(tempShiftCompleteDay(tEval), mucusShiftCompleteDay(mEval))
        rules6 == Append(rules4, "DOUBLE_CHECK")
        data6 == Append(data4, [cycleDay |-> fertilityEndsDay, field |-> "fertilityEndsDay",
                                value |-> fertilityEndsDay])
    IN  IF day <= cycleStart.lastInfertileDay
        THEN IF /\ today # {}
                /\ todayEntry.mucusObservation # NoMucus
                /\ todayEntry.mucusObservation # "d"
             THEN createFertileStatus("pre-ovulation", "FERTILE_MUCUS_STARTED",
                                      rules1, <<>>, warnings0)
             ELSE createInfertileStatus("pre-ovulation", "PRE_OVULATION_INFERTILE",
                                        rules1, <<>>, warnings0)
        ELSE IF doubleCheckPending(tEval, mEval)
        THEN createFertileStatus("fertile", "FERTILE_WAITING_DOUBLE_CHECK",
                 rules4 \o (IF mEval.peakQualityReturned /\ ~tEval.isShiftComplete
                            THEN <<"MUCUS_BEFORE_TEMP">> ELSE <<>>),
                 data4,
                 warnings4 \o (IF ~tEval.isShiftComplete THEN <<"NO_TEMP_SHIFT">> ELSE <<>>))
        ELSE IF day >= fertilityEndsDay
        THEN createInfertileStatus("post-ovulation", "POST_OVULATION_INFERTILE",
                                   rules6, data6, warnings4)
        ELSE createFertileStatus("fertile", "FERTILE_WAITING_DOUBLE_CHECK",
                                 rules6, data6, warnings4)

-----------------------------------------------------------------------------
(* The state machine: entries are recorded day by day (db.ts saveEntry,    *)
(* read back by getEntriesByCycle), and the engine's entry points are      *)
(* called on the recorded list, each once per recorded list (a call is a   *)
(* function of the list, and the page calls once per load of the list).    *)

\* readings offered on the days after the baseline days: 36.20, 36.25, 36.40, 36.45
TempValues == {3620, 3625, 3640, 3645}

\* the reading of the first days of a cycle
BaselineTemps == {3620}

\* days of the temperature specification that only carry a baseline reading
BaselineDays == 5

\* db.ts getOrCreateProfile: the profile of a new user
DefaultProfile ==
    [earliestFirstHigherTemps |-> <<>>, cycleCount |-> 0, shortestCycleLength |-> NoLength]

DailyEntry(day, temp, excluded, mucus) ==
    [cycleDay |-> day, temperature |-> temp, temperatureExcluded |-> excluded,
     mucusObservation |-> mucus]

\* Table.sortBy('cycleDay') of getEntriesByCycle
RECURSIVE InsertByCycleDay(_, _)
InsertByCycleDay(s, x) ==
    IF s = <<>> THEN <<x>>
    ELSE IF s[Len(s)].cycleDay <= x.cycleDay THEN Append(s, x)
         ELSE Append(InsertByCycleDay(SubSeq(s, 1, Len(s) - 1), x), s[Len(s)])

RECURSIVE getEntriesByCycle(_)
getEntriesByCycle(table) ==
    IF table = <<>> THEN <<>>
    ELSE InsertByCycleDay(getEntriesByCycle(SubSeq(table, 1, Len(table) - 1)),
                          table[Len(table)])

\* saveEntry for a date without an entry, then the reload of the cycle's list;
\* results of earlier calls are about the old list and are dropped
saveEntry(entry) ==
    /\ \A k \in 1..Len(entries) : entries[k].cycleDay # entry.cycleDay
    /\ entries' = getEntriesByCycle(Append(entries, entry))
    /\ peakDay' = NotCalled
    /\ mucusEval' = NotCalled
    /\ tempEval' = NotCalled
    /\ cycleStartResult' = NotCalled
    /\ status' = NotCalled
    /\ currentDay' = NoDay
    /\ UNCHANGED <<profile, callVars, dbVars>>

\* the calls of a storage function and the state of one that has not started
Callers == 1..MaxCallers

IdleCall == [pc |-> "idle"]

\* no second call made, and the days recorded so far are the profile's history
InitCalls ==
    /\ repeated = NotCalled
    /\ recorded = profile.earliestFirstHigherTemps
    /\ passedIn = NotCalled

\* empty tables and no call in progress
InitDb ==
    /\ dbEntries = {}
    /\ saveCalls = [c \in Callers |-> IdleCall]
    /\ dbCycles = {}
    /\ cycleCalls = [c \in Callers |-> IdleCall]
    /\ clock = 0

Init ==
    /\ profile = DefaultProfile
    /\ InitCalls
    /\ InitDb
    /\ entries = <<>>
    /\ currentDay = NoDay
    /\ peakDay = NotCalled
    /\ mucusEval = NotCalled
    /\ tempEval = NotCalled
    /\ cycleStartResult = NotCalled
    /\ status = NotCalled

(* Mucus specification: entries that carry a mucus observation or nothing  *)

\* observations offered to the mucus specification
MucusInputs == {"d", "m", "S", "S+", NoMucus}

SaveMucusEntry ==
    /\ Len(entries) < MaxMucusDay
    /\ \E mucus \in MucusInputs :
           saveEntry(DailyEntry(Len(entries) + 1, NoTemp, FALSE, mucus))

FindPeakDay ==
    /\ peakDay = NotCalled
    /\ peakDay' = Returned(findPeakDay(entries))
    /\ UNCHANGED <<entries, profile, currentDay, mucusEval, tempEval, cycleStartResult, status>>
    /\ UNCHANGED <<callVars, dbVars>>

EvaluateMucusShift ==
    /\ mucusEval = NotCalled
    /\ mucusEval' = Returned(evaluateMucusShift(entries))
    /\ UNCHANGED <<entries, profile, currentDay, peakDay, tempEval, cycleStartResult, status>>
    /\ UNCHANGED <<callVars, dbVars>>

NextMucus == SaveMucusEntry \/ FindPeakDay \/ EvaluateMucusShift

SpecMucus == Init /\ [][NextMucus]_vars

(* Temperature specification: entries that carry a reading (possibly       *)
(* excluded) or nothing                                                    *)

TempChoices(day) ==
    IF day <= BaselineDays THEN {<<t, FALSE>> : t \in BaselineTemps}
    ELSE {<<t, FALSE>> : t \in TempValues} \cup {<<NoTemp, FALSE>>, <<3645, TRUE>>}

SaveTempEntry ==
    /\ Len(entries) < MaxTempDay
    /\ \E c \in TempChoices(Len(entries) + 1) :
           saveEntry(DailyEntry(Len(entries) + 1, c[1], c[2], NoMucus))

EvaluateTemperatureShift ==
    /\ tempEval = NotCalled
    /\ tempEval' = Returned(evaluateTemperatureShift(entries))
    /\ UNCHANGED <<entries, profile, currentDay, peakDay, mucusEval, cycleStartResult, status>>
    /\ UNCHANGED <<callVars, dbVars>>

NextTemp == SaveTempEntry \/ EvaluateTemperatureShift

SpecTemp == Init /\ [][NextTemp]_vars

(* Full specification: entries with a reading and a mucus observation, and *)
(* the status of any day of the cycle                                      *)

\* days of the full specification with the baseline reading
StatusBaselineDays == 6

\* days of the full specification with dry mucus
StatusDryDays == 4

StatusTemps(day) == IF day <= StatusBaselineDays THEN BaselineTemps ELSE {3620, 3625, 3645}

StatusMucus(day) == IF day <= StatusDryDays THEN {"d"} ELSE {"d", "S+"}

SaveEntry ==
    /\ Len(entries) < MaxDay
    /\ \E temp \in StatusTemps(Len(entries) + 1), mucus \in StatusMucus(Len(entries) + 1) :
           saveEntry(DailyEntry(Len(entries) + 1, temp, FALSE, mucus))

\* a variant whose temperature extraction sorts the list it was given
CalculateFertilityStatusSortingInPlace ==
    /\ status = NotCalled
    /\ \E day \in 1..MaxDay :
           /\ currentDay' = day
           /\ status' = Returned(calculateFertilityStatus(entries, day, profile))
    /\ entries' = getEntriesByCycle(entries)
    /\ UNCHANGED <<profile, peakDay, mucusEval, tempEval, cycleStartResult>>
    /\ UNCHANGED <<callVars, dbVars>>

CalculateFertilityStatus ==
    /\ status = NotCalled
    /\ \E day \in 1..MaxDay :
           /\ currentDay' = day
           /\ status' = Returned(calculateFertilityStatus(entries, day, profile))
    /\ UNCHANGED <<entries, profile, peakDay, mucusEval, tempEval, cycleStartResult>>
    /\ UNCHANGED <<callVars, dbVars>>

Next == SaveEntry \/ CalculateFertilityStatus

Spec == Init /\ [][Next]_vars

(* Repeated call specification: calculateFertilityStatus called twice on   *)
(* the same list, which the caller may hand over in any order              *)

\* entries of the lists handed over: the baseline reading with dry or
\* fertile mucus
PureEntries == {DailyEntry(day, 3620, FALSE, mucus) : day \in 1..MaxPureLen, mucus \in {"d", "S"}}

\* lists of two or more entries of distinct days, in any order
PureLists ==
    {es \in UNION {[1..n -> PureEntries] : n \in 2..MaxPureLen} :
        \A j, k \in 1..Len(es) : j # k => es[j].cycleDay # es[k].cycleDay}

InitPure ==
    /\ profile = DefaultProfile
    /\ InitCalls
    /\ InitDb
    /\ entries \in PureLists
    /\ currentDay = NoDay
    /\ peakDay = NotCalled
    /\ mucusEval = NotCalled
    /\ tempEval = NotCalled
    /\ cycleStartResult = NotCalled
    /\ status = NotCalled

\* the same arguments once more: the list, the day and the profile as the
\* first call left them
CalculateFertilityStatusAgain ==
    /\ status # NotCalled
    /\ repeated = NotCalled
    /\ repeated' = Returned(calculateFertilityStatus(entries, currentDay, profile))
    /\ UNCHANGED <<engineVars, profile, recorded, passedIn, dbVars>>

NextPure == CalculateFertilityStatus \/ CalculateFertilityStatusAgain

SpecPure == InitPure /\ [][NextPure]_vars

(* Cycle start specification: determineCycleStart on a profile with a       *)
(* history, a cycle count and possibly a shortest cycle length, and on     *)
(* entries that carry a mucus observation or nothing                       *)

\* earliest first higher temperature days of past cycles: one that Minus-8
\* floors at 0, one before, one on and one after the transition threshold
HistoryDays == {7, 10, 12, 13}

\* a history of n cycles, the last of which had its first higher reading on
\* day and the others on day 13
LongHistory(n, day) == [k \in 1..n |-> IF k = n THEN day ELSE 13]

Histories ==
    {<<>>} \cup {<<day>> : day \in HistoryDays}
           \cup {LongHistory(n, day) : n \in {MIN_CYCLES_FOR_MINUS_8 - 1, MIN_CYCLES_FOR_MINUS_8},
                                       day \in HistoryDays}

Profiles ==
    [earliestFirstHigherTemps : Histories,
     cycleCount : {0, MIN_CYCLES_FOR_MINUS_8 - 1, MIN_CYCLES_FOR_MINUS_8},
     shortestCycleLength : {NoLength, 25, 26}]

\* observations offered to the cycle start specification
StartInputs == {"d", "o", "S", NoMucus}

InitStart ==
    /\ profile \in Profiles
    /\ InitCalls
    /\ InitDb
    /\ entries = <<>>
    /\ currentDay = NoDay
    /\ peakDay = NotCalled
    /\ mucusEval = NotCalled
    /\ tempEval = NotCalled
    /\ cycleStartResult = NotCalled
    /\ status = NotCalled

SaveStartEntry ==
    /\ Len(entries) < MaxStartDay
    /\ \E mucus \in StartInputs :
           saveEntry(DailyEntry(Len(entries) + 1, NoTemp, FALSE, mucus))

DetermineCycleStart ==
    /\ cycleStartResult = NotCalled
    /\ cycleStartResult' = Returned(determineCycleStart(profile, entries))
    /\ UNCHANGED <<entries, profile, currentDay, peakDay, mucusEval, tempEval, status>>
    /\ UNCHANGED <<callVars, dbVars>>

NextStart == SaveStartEntry \/ DetermineCycleStart

SpecStart == InitStart /\ [][NextStart]_vars

(* History specification: updateEarliestFirstHigherTemp called at the end  *)
(* of each cycle on the profile the previous call returned                 *)

\* profiles near the end of the first twelve cycles, with a history no
\* longer than their cycle count
InitHistory ==
    /\ InitStart
    /\ profile.cycleCount >= MIN_CYCLES_FOR_MINUS_8 - 1

UpdateEarliestFirstHigherTemp ==
    /\ profile.cycleCount < MIN_CYCLES_FOR_MINUS_8 + MaxUpdates
    /\ \E firstHigherTempDay \in HistoryDays :
           /\ profile' = updateEarliestFirstHigherTemp(profile, firstHigherTempDay)
           /\ recorded' = Append(recorded, firstHigherTempDay)
    /\ passedIn' = Returned(profile)
    /\ UNCHANGED <<engineVars, repeated, dbVars>>

NextHistory == UpdateEarliestFirstHigherTemp

SpecHistory == InitHistory /\ [][NextHistory]_vars

(* Save specification: saveEntry calls on the entries table; a call is a   *)
(* lookup and a write with an await before each, and the steps of calls in *)
(* progress together interleave                                            *)

\* dates, ids and observations of the entries passed to saveEntry
SaveDates == {1, 2}

SaveIds == 1..(MaxCallers + 1)

SaveArguments == [id : SaveIds, date : SaveDates, mucusObservation : {"d", "S"}]

\* the result of a lookup that found no entry
NoEntry == [found |-> FALSE]

\* db.entries.where('date').equals(date).first(): of the entries of the
\* date, the first by primary key
FirstByDate(table, date) ==
    LET matches == {e \in table : e.date = date}
    IN  IF matches = {} THEN NoEntry
        ELSE [found |-> TRUE,
              entry |-> CHOOSE e \in matches : \A f \in matches : e.id <= f.id]

\* const existing = await db.entries.where('date').equals(entry.date).first()
SaveEntryLookup(c) ==
    /\ saveCalls[c].pc = "idle"
    /\ \E entry \in SaveArguments :
           saveCalls' = [saveCalls EXCEPT ![c] =
                            [pc |-> "looked-up", entry |-> entry,
                             existing |-> FirstByDate(dbEntries, entry.date)]]
    /\ UNCHANGED <<engineVars, profile, callVars, dbEntries, dbCycles, cycleCalls, clock>>

\* await db.entries.update(existing.id, ...) or await db.entries.add(...);
\* add rejects when the primary key is already in the table
SaveEntryWrite(c) ==
    /\ saveCalls[c].pc = "looked-up"
    /\ LET entry == saveCalls[c].entry
           existing == saveCalls[c].existing
       IN  IF existing.found
           THEN /\ dbEntries' =
                       {e \in dbEntries : e.id # existing.entry.id} \cup
                       (IF \E e \in dbEntries : e.id = existing.entry.id
                        THEN {[id |-> existing.entry.id, date |-> entry.date,
                               mucusObservation |-> entry.mucusObservation,
                               createdAt |-> existing.entry.createdAt, updatedAt |-> clock]}
                        ELSE {})
                /\ saveCalls' = [saveCalls EXCEPT ![c] = [pc |-> "done"]]
           ELSE IF \E e \in dbEntries : e.id = entry.id
           THEN /\ dbEntries' = dbEntries
                /\ saveCalls' = [saveCalls EXCEPT ![c] = [pc |-> "rejected"]]
           ELSE /\ dbEntries' = dbEntries \cup
                       {[id |-> entry.id, date |-> entry.date,
                         mucusObservation |-> entry.mucusObservation,
                         createdAt |-> clock, updatedAt |-> clock]}
                /\ saveCalls' = [saveCalls EXCEPT ![c] = [pc |-> "done"]]
    /\ clock' = clock + 1
    /\ UNCHANGED <<engineVars, profile, callVars, dbCycles, cycleCalls>>

NextSave == \E c \in Callers : SaveEntryLookup(c) \/ SaveEntryWrite(c)

SpecSave == Init /\ [][NextSave]_vars

(* Cycle specification: createCycle calls on the cycles table and the      *)
(* stored profile; a call is five database operations with an await before *)
(* each, and the steps of calls in progress together interleave            *)

\* start dates passed to createCycle, as day numbers
CycleStartDates == {10, 20}

\* the endDate of a cycle that is not closed
NoDate == 0

\* the result of getCurrentCycle when no cycle is open
NoCycle == [found |-> FALSE]

\* the cycles without an end date
OpenCycles(table) == {cy \in table : cy.endDate = NoDate}

\* const profile = await getOrCreateProfile()
CreateCycleGetProfile(c) ==
    /\ cycleCalls[c].pc = "idle"
    /\ \E startDate \in CycleStartDates :
           cycleCalls' = [cycleCalls EXCEPT ![c] =
                             [pc |-> "profile-read", startDate |-> startDate,
                              profile |-> profile, previousCycle |-> NoCycle]]
    /\ UNCHANGED <<engineVars, profile, callVars, dbEntries, saveCalls, dbCycles, clock>>

\* const previousCycle = await getCurrentCycle(): the first cycle without an
\* end date, in the order of the random ids
CreateCycleGetCurrent(c) ==
    /\ cycleCalls[c].pc = "profile-read"
    /\ \/ /\ OpenCycles(dbCycles) = {}
          /\ cycleCalls' = [cycleCalls EXCEPT ![c].pc = "previous-closed"]
       \/ \E cy \in OpenCycles(dbCycles) :
              cycleCalls' = [cycleCalls EXCEPT ![c].pc = "current-read",
                                               ![c].previousCycle =
                                                   [found |-> TRUE, cycle |-> cy]]
    /\ UNCHANGED <<engineVars, profile, callVars, dbEntries, saveCalls, dbCycles, clock>>

\* await db.cycles.update(previousCycle.id, {endDate: the day before startDate})
CreateCycleClosePrevious(c) ==
    /\ cycleCalls[c].pc = "current-read"
    /\ dbCycles' = {IF cy.id = cycleCalls[c].previousCycle.cycle.id
                    THEN [cy EXCEPT !.endDate = cycleCalls[c].startDate - 1]
                    ELSE cy : cy \in dbCycles}
    /\ cycleCalls' = [cycleCalls EXCEPT ![c].pc = "previous-closed"]
    /\ UNCHANGED <<engineVars, profile, callVars, dbEntries, saveCalls, clock>>

\* await db.cycles.add(newCycle), the id being the call's random UUID
CreateCycleAdd(c) ==
    /\ cycleCalls[c].pc = "previous-closed"
    /\ dbCycles' = dbCycles \cup
                       {[id |-> c, startDate |-> cycleCalls[c].startDate, endDate |-> NoDate,
                         cycleNumber |-> cycleCalls[c].profile.cycleCount + 1]}
    /\ cycleCalls' = [cycleCalls EXCEPT ![c].pc = "added"]
    /\ UNCHANGED <<engineVars, profile, callVars, dbEntries, saveCalls, clock>>

\* await updateProfile({cycleCount: profile.cycleCount + 1})
CreateCycleUpdateProfile(c) ==
    /\ cycleCalls[c].pc = "added"
    /\ profile' = [profile EXCEPT !.cycleCount = cycleCalls[c].profile.cycleCount + 1]
    /\ cycleCalls' = [cycleCalls EXCEPT ![c].pc = "done"]
    /\ UNCHANGED <<engineVars, callVars, dbEntries, saveCalls, dbCycles, clock>>

NextCycle ==
    \E c \in Callers :
        \/ CreateCycleGetProfile(c)
        \/ CreateCycleGetCurrent(c)
        \/ CreateCycleClosePrevious(c)
        \/ CreateCycleAdd(c)
        \/ CreateCycleUpdateProfile(c)

SpecCycle == Init /\ [][NextCycle]_vars

-----------------------------------------------------------------------------
(* Vocabulary of the properties: the recorded observations, stated from    *)
(* the entries without the evaluators                                      *)

\* the entries (by index) that carry a mucus observation
Observed(es) == {k \in 1..Len(es) : es[k].mucusObservation # NoMucus}

Quality(es, k) == MUCUS_QUALITY_ORDER[es[k].mucusObservation]

\* the entries that carry the highest quality observed anywhere in the list
Highest(es) == {k \in Observed(es) : \A j \in Observed(es) : Quality(es, j) <= Quality(es, k)}

\* the last day bearing the highest quality
LastHighestDay(es) ==
    CHOOSE d \in {es[k].cycleDay : k \in Highest(es)} :
        \A k \in Highest(es) : es[k].cycleDay <= d

\* the observations later than day p
After(es, p) == {k \in Observed(es) : es[k].cycleDay > p}

\* a later observation of strictly lower quality than the highest follows
\* the last day bearing the highest quality
DeclineAfterLastHighest(es) ==
    /\ Observed(es) # {}
    /\ \E k \in After(es, LastHighestDay(es)) :
           \A h \in Highest(es) : Quality(es, k) < Quality(es, h)

\* the quality observed on day p
QualityOfDay(es, p) == Quality(es, CHOOSE k \in Observed(es) : es[k].cycleDay = p)

\* the observations after day p whose quality is at least that of day p
Relapses(es, p) == {k \in After(es, p) : Quality(es, k) >= QualityOfDay(es, p)}

FirstRelapse(es, p) ==
    CHOOSE k \in Relapses(es, p) : \A j \in Relapses(es, p) : es[k].cycleDay <= es[j].cycleDay

\* the number of observations after day p and before the observation k
CountedBefore(es, p, k) ==
    Cardinality({j \in After(es, p) : es[j].cycleDay < es[k].cycleDay})

AtMost3(n) == IF n > 3 THEN 3 ELSE n

\* the P+1, P+2, P+3 count from peak day p: the lower observations that
\* follow p in a row, up to 3
LowerInARow(es, p) ==
    IF Relapses(es, p) = {} THEN AtMost3(Cardinality(After(es, p)))
    ELSE AtMost3(CountedBefore(es, p, FirstRelapse(es, p)))

\* the observed categories in day order
ObservedCategories(es) ==
    LET obs == SelectSeq(es, HasMucus) IN [k \in 1..Len(obs) |-> obs[k].mucusObservation]

-----------------------------------------------------------------------------
(* Properties of the mucus evaluator, under SpecMucus                      *)

\* C5: whenever findPeakDay returns a day, it is the last day bearing the
\* highest quality observed anywhere in the list. Violated by the code: the
\* loop stops at the first decline, after the first run of the highest quality.
C5_PeakIsLastDayOfHighestQuality ==
    (peakDay # NotCalled /\ peakDay.value # NoDay)
        => peakDay.value = LastHighestDay(entries)

\* C8: findPeakDay returns no day with fewer than 2 observations and when no
\* observation after the last day bearing the highest quality is strictly
\* lower; it returns a day only when such a later decline exists. Violated by
\* the code for the same reason as C5.
C8_PeakOnlyAfterDeclineFromLastHighest ==
    peakDay # NotCalled =>
        /\ Cardinality(Observed(entries)) < 2 => peakDay.value = NoDay
        /\ ~DeclineAfterLastHighest(entries) => peakDay.value = NoDay
        /\ peakDay.value # NoDay => DeclineAfterLastHighest(entries)

\* C6: if the evaluation was complete on the list without its last entry and
\* the last entry observes a quality at least the peak quality, the evaluation
\* of the whole list is not complete. Violated by the code: the count stops at
\* 3 and the peak stays the end of the first run.
C6_AppendedRelapseFlipsComplete ==
    (mucusEval # NotCalled /\ Len(entries) >= 1) =>
        LET n == Len(entries)
            before == evaluateMucusShift(SubSeq(entries, 1, n - 1))
        IN  (/\ before.isShiftComplete
             /\ n \in Observed(entries)
             /\ Quality(entries, n) >= QualityOfDay(entries, before.peakDay))
                => ~mucusEval.value.isShiftComplete

\* C7: a relapse (quality >= peak quality) after the peak day and before three
\* lower observations gives peakQualityReturned, not complete, and a count of
\* the lower observations before it; and peakQualityReturned always excludes
\* complete.
C7_RelapseBeforeThree ==
    mucusEval # NotCalled =>
        LET r == mucusEval.value
            p == r.peakDay
        IN  /\ r.peakQualityReturned => ~r.isShiftComplete
            /\ (/\ p # NoDay
                /\ Relapses(entries, p) # {}
                /\ CountedBefore(entries, p, FirstRelapse(entries, p)) < 3)
                   => /\ r.peakQualityReturned
                      /\ ~r.isShiftComplete
                      /\ r.postPeakCount = CountedBefore(entries, p, FirstRelapse(entries, p))

C7_Witness ==
    /\ mucusEval # NotCalled
    /\ mucusEval.value.peakQualityReturned
    /\ mucusEval.value.postPeakCount = 2
    /\ ObservedCategories(entries) = <<"S+", "S", "m", "S+">>

\* C9: postPeakCount is in 0..3 and is the number of lower observations that
\* follow the peak day in a row (0 without a peak day); the evaluation is
\* complete exactly when there is a peak day, the count is 3 and no relapse was
\* flagged; S+,S+,S+,S,m,d gives the last S+ day, count 3, complete.
C9_PostPeakCount ==
    mucusEval # NotCalled =>
        LET r == mucusEval.value
        IN  /\ r.postPeakCount \in 0..3
            /\ r.postPeakCount =
                   IF r.peakDay = NoDay THEN 0 ELSE LowerInARow(entries, r.peakDay)
            /\ r.isShiftComplete <=>
                   (r.peakDay # NoDay /\ r.postPeakCount = 3 /\ ~r.peakQualityReturned)
            /\ ObservedCategories(entries) = <<"S+", "S+", "S+", "S", "m", "d">>
                   => /\ r.peakDay = LastHighestDay(entries)
                      /\ r.postPeakCount = 3
                      /\ r.isShiftComplete
                      /\ ~r.peakQualityReturned

C9_Witness ==
    /\ mucusEval # NotCalled
    /\ ObservedCategories(entries) = <<"S+", "S+", "S+", "S", "m", "d">>
    /\ mucusEval.value.isShiftComplete

\* the highest quality was left and came back during the count: after some
\* day of the highest quality one or two lower observations follow, and then
\* the highest quality again
ReturnedDuringCount(es) ==
    \E h \in Highest(es) :
        LET p == es[h].cycleDay
        IN  /\ Relapses(es, p) # {}
            /\ CountedBefore(es, p, FirstRelapse(es, p)) \in 1..2

\* C25: relapse restart: when the quality returns to the peak quality during
\* the P+1..P+3 count and then declines again, evaluateMucusShift drops the
\* first peak candidate, reports the last day of the returned peak quality
\* as peakDay and counts from it, so that three lower observations after it
\* complete the shift. Violated by the code: it keeps the first candidate
\* and stops at the relapse.
C25_RelapseRestart ==
    (/\ mucusEval # NotCalled
     /\ Observed(entries) # {}
     /\ ReturnedDuringCount(entries)
     /\ Cardinality(After(entries, LastHighestDay(entries))) >= 3)
        => /\ mucusEval.value.peakDay = LastHighestDay(entries)
           /\ mucusEval.value.postPeakCount = 3
           /\ mucusEval.value.isShiftComplete

-----------------------------------------------------------------------------
(* Vocabulary of the temperature properties: the valid readings and the    *)
(* rules as the protocol states them, in exact hundredths of a degree      *)

IsReading(e) == e.temperature # NoTemp /\ e.temperatureExcluded = FALSE

\* the valid readings in day order
Readings(es) == SelectSeq(es, IsReading)

\* the baseline end indices evaluateTemperatureShift scans
Windows(es) == 6..(Len(Readings(es)) - 3)

\* the coverline of window i: the highest of the six readings before the window
Coverline(es, i) ==
    LET r == Readings(es)
    IN  CHOOSE c \in {r[k].temperature : k \in (i - 5)..i} :
            \A k \in (i - 5)..i : r[k].temperature <= c

\* the k-th reading after the baseline of window i
Reading(es, i, k) == Readings(es)[i + k].temperature

ReadingDay(es, i, k) == Readings(es)[i + k].cycleDay

ThreeAbove(es, i) == \A k \in 1..3 : Reading(es, i, k) > Coverline(es, i)

ThirdElevated(es, i) == Reading(es, i, 3) >= Coverline(es, i) + 20

MainRule(es, i) == ThreeAbove(es, i) /\ ThirdElevated(es, i)

Exception1(es, i) ==
    /\ i + 4 <= Len(Readings(es))
    /\ ThreeAbove(es, i)
    /\ ~ThirdElevated(es, i)
    /\ Reading(es, i, 4) > Coverline(es, i)

Exception2(es, i) ==
    /\ Cardinality({k \in 1..3 : Reading(es, i, k) <= Coverline(es, i)}) = 1
    /\ ThirdElevated(es, i)

Qualifies(es, i) == MainRule(es, i) \/ Exception1(es, i) \/ Exception2(es, i)

FirstQualifying(es) ==
    CHOOSE i \in Windows(es) : Qualifies(es, i) /\ \A j \in Windows(es) : Qualifies(es, j) => i <= j

-----------------------------------------------------------------------------
(* Properties of the temperature evaluator, under SpecTemp                 *)

\* C10: when the first qualifying window has its three readings above the
\* coverline and the third at least 0.2 above it, the result is complete with
\* that coverline, no exception and the days of those three readings; a last
\* window with three readings above and the third less than 0.2 above, without
\* a fourth reading, does not complete the shift. Violated by the code: the
\* double coverLine + 0.2 can exceed the reading that is 0.20 above.
C10_MainRule ==
    tempEval # NotCalled =>
        LET r == tempEval.value
            last == Len(Readings(entries)) - 3
        IN  /\ (/\ \E i \in Windows(entries) : Qualifies(entries, i)
                /\ MainRule(entries, FirstQualifying(entries)))
                   => LET i == FirstQualifying(entries)
                      IN  /\ r.isShiftComplete
                          /\ r.coverLineTemp = Coverline(entries, i)
                          /\ r.exceptionUsed = "none"
                          /\ r.higherTempDays = [k \in 1..3 |-> ReadingDay(entries, i, k)]
            /\ (/\ last \in Windows(entries)
                /\ \A j \in Windows(entries) : j < last => ~Qualifies(entries, j)
                /\ ThreeAbove(entries, last)
                /\ ~ThirdElevated(entries, last))
                   => ~r.isShiftComplete

\* the cycle days of the first n readings after the baseline of window i
WindowDays(es, i, n) == [k \in 1..n |-> ReadingDay(es, i, k)]

\* C11: the shift completes with exceptionUsed = "first" exactly when, in the
\* window that decides, the first three readings are above the coverline, the
\* third is less than 0.2 above it and a fourth reading is above it; the four
\* days are recorded in order. Violated by the code (through the comparison of
\* C10): a third reading exactly 0.20 above the coverline fails the main rule
\* and is then taken by Exception 1.
C11_Exception1 ==
    tempEval # NotCalled =>
        LET r == tempEval.value
        IN  /\ r.exceptionUsed = "first"
                   => /\ r.isShiftComplete
                      /\ \E i \in Windows(entries) :
                             /\ i + 4 <= Len(Readings(entries))
                             /\ r.coverLineTemp = Coverline(entries, i)
                             /\ r.higherTempDays = WindowDays(entries, i, 4)
                             /\ ThreeAbove(entries, i)
                             /\ Reading(entries, i, 3) < Coverline(entries, i) + 20
                             /\ Reading(entries, i, 4) > Coverline(entries, i)
            /\ (/\ \E i \in Windows(entries) : Qualifies(entries, i)
                /\ Exception1(entries, FirstQualifying(entries)))
                   => /\ r.isShiftComplete
                      /\ r.exceptionUsed = "first"
                      /\ r.higherTempDays = WindowDays(entries, FirstQualifying(entries), 4)

\* the positions of window i whose reading is at or below the coverline
Dipped(es, i) == {k \in 1..3 : Reading(es, i, k) <= Coverline(es, i)}

\* the days of the readings of window i above the coverline, in order
DaysAbove(es, i) ==
    LET IsAbove(e) == e.temperature > Coverline(es, i)
        kept == SelectSeq(SubSeq(Readings(es), i + 1, i + 3), IsAbove)
    IN  [k \in 1..Len(kept) |-> kept[k].cycleDay]

\* C12: the shift completes with exceptionUsed = "second" exactly when, in the
\* window that decides, exactly one of the three readings is at or below the
\* coverline and the third is at least 0.2 above it; the recorded days are
\* those of the two readings above the coverline; a window with two or more
\* readings at or below the coverline never completes the shift. Violated by
\* the code (through the comparison of C10): a third reading exactly 0.20
\* above the coverline is rejected.
C12_Exception2 ==
    tempEval # NotCalled =>
        LET r == tempEval.value
        IN  /\ r.exceptionUsed = "second"
                   => /\ r.isShiftComplete
                      /\ \E i \in Windows(entries) :
                             /\ r.coverLineTemp = Coverline(entries, i)
                             /\ Cardinality(Dipped(entries, i)) = 1
                             /\ Reading(entries, i, 3) >= Coverline(entries, i) + 20
                             /\ r.higherTempDays = DaysAbove(entries, i)
                             /\ Len(r.higherTempDays) = 2
                             /\ \A k \in Dipped(entries, i), j \in 1..2 :
                                    r.higherTempDays[j] # ReadingDay(entries, i, k)
            /\ (/\ \E i \in Windows(entries) : Qualifies(entries, i)
                /\ Exception2(entries, FirstQualifying(entries)))
                   => /\ r.isShiftComplete
                      /\ r.exceptionUsed = "second"
                      /\ r.higherTempDays = DaysAbove(entries, FirstQualifying(entries))
            /\ (\A i \in Windows(entries) : Cardinality(Dipped(entries, i)) >= 2)
                   => ~r.isShiftComplete

\* the rule that window i satisfies
RuleOf(es, i) ==
    IF MainRule(es, i) THEN "none" ELSE IF Exception1(es, i) THEN "first" ELSE "second"

\* the days the rule of window i records
RecordedDays(es, i) ==
    IF MainRule(es, i) THEN WindowDays(es, i, 3)
    ELSE IF Exception1(es, i) THEN WindowDays(es, i, 4)
    ELSE DaysAbove(es, i)

\* C13: with nine or more valid readings the result is the evaluation of the
\* smallest baseline end index whose window satisfies the main rule,
\* Exception 1 or Exception 2, whatever later windows do; without such a
\* window it is incomplete, evaluable and without elevated days. Violated by
\* the code (through the comparison of C10): a window whose third reading is
\* exactly 0.20 above the coverline is passed over or taken by Exception 1.
C13_FirstWindowWins ==
    (tempEval # NotCalled /\ Len(Readings(entries)) >= 9) =>
        LET r == tempEval.value
        IN  IF \E i \in Windows(entries) : Qualifies(entries, i)
            THEN LET i == FirstQualifying(entries)
                 IN  /\ r.isShiftComplete
                     /\ r.coverLineTemp = Coverline(entries, i)
                     /\ r.exceptionUsed = RuleOf(entries, i)
                     /\ r.higherTempDays = RecordedDays(entries, i)
            ELSE /\ ~r.isShiftComplete
                 /\ ~r.cannotEvaluate
                 /\ r.higherTempDays = <<>>

\* how many of the three rules window i satisfies
RulesSatisfied(es, i) ==
    Cardinality({n \in 1..3 : \/ n = 1 /\ MainRule(es, i)
                              \/ n = 2 /\ Exception1(es, i)
                              \/ n = 3 /\ Exception2(es, i)})

\* window i is the one the result r was taken from
IsWinningWindow(es, i, r) ==
    /\ r.isShiftComplete
    /\ r.coverLineTemp = Coverline(es, i)
    /\ r.higherTempDays \in {WindowDays(es, i, 3), DaysAbove(es, i)}
           \cup (IF i + 4 <= Len(Readings(es)) THEN {WindowDays(es, i, 4)} ELSE {})

\* C14: every window satisfies at most one of the main rule, Exception 1 and
\* Exception 2; a result taken from a window that satisfies the main rule has
\* exceptionUsed = "none"; a result names one rule only. Violated by the code
\* (through the comparison of C10): a main-rule window whose third reading is
\* exactly 0.20 above the coverline is reported as Exception 1.
C14_RulesExclusive ==
    tempEval # NotCalled =>
        LET r == tempEval.value
        IN  /\ \A i \in Windows(entries) : RulesSatisfied(entries, i) <= 1
            /\ \A i \in Windows(entries) :
                   (IsWinningWindow(entries, i, r) /\ MainRule(entries, i))
                       => r.exceptionUsed = "none"
            /\ r.exceptionUsed \in {"none", "first", "second"}
            /\ r.exceptionUsed = "first" => Len(r.higherTempDays) = 4
            /\ r.exceptionUsed = "second" => Len(r.higherTempDays) = 2

\* C15: cannotEvaluate is true exactly when there are fewer than 9 valid
\* readings, and then the result is incomplete, without elevated days, without
\* exception and with a reason.
C15_CannotEvaluate ==
    tempEval # NotCalled =>
        LET r == tempEval.value
        IN  /\ r.cannotEvaluate <=> Len(Readings(entries)) < 9
            /\ r.cannotEvaluate
                   => /\ ~r.isShiftComplete
                      /\ r.higherTempDays = <<>>
                      /\ r.exceptionUsed = "none"
                      /\ r.cannotEvaluateReason # NoReason

\* ten entries of which an excluded one and one without a value leave eight
\* valid readings
C15_Witness ==
    /\ tempEval # NotCalled
    /\ tempEval.value.cannotEvaluate
    /\ Len(entries) = 10
    /\ Len(Readings(entries)) = 8
    /\ \E k \in 1..Len(entries) : entries[k].temperatureExcluded

\* the list es in the opposite order
Reversed(es) == [k \in 1..Len(es) |-> es[Len(es) + 1 - k]]

\* the list es with every excluded reading given the value v
Revalued(es, v) ==
    [k \in 1..Len(es) |->
        IF es[k].temperatureExcluded THEN [es[k] EXCEPT !.temperature = v] ELSE es[k]]

ExcludedDays(es) == {es[k].cycleDay : k \in {j \in 1..Len(es) : es[j].temperatureExcluded}}

\* C16: getValidTemperatures returns exactly the entries with a value that are
\* not excluded, in ascending day order whatever the order of the entries; the
\* evaluation is the same without the excluded and value-less entries and with
\* any other value in the excluded readings; no excluded day is an elevated
\* day and the coverline is the value of a valid reading.
C16_ExcludedNeverParticipates ==
    tempEval # NotCalled =>
        LET r == tempEval.value
            valid == getValidTemperatures(Reversed(entries))
            kept == {k \in 1..Len(entries) : IsReading(entries[k])}
        IN  /\ Len(valid) = Cardinality(kept)
            /\ \A k \in kept : \E j \in 1..Len(valid) :
                   valid[j] = [day |-> entries[k].cycleDay, temp |-> entries[k].temperature]
            /\ \A j \in 1..(Len(valid) - 1) : valid[j].day < valid[j + 1].day
            /\ getValidTemperatures(entries) = valid
            /\ r = evaluateTemperatureShift(Readings(entries))
            /\ \A v \in TempValues : r = evaluateTemperatureShift(Revalued(entries, v))
            /\ \A k \in 1..Len(r.higherTempDays) :
                   r.higherTempDays[k] \notin ExcludedDays(entries)
            /\ r.coverLineTemp # NoTemp
                   => \E k \in kept : entries[k].temperature = r.coverLineTemp

\* an excluded reading higher than the coverline lies between the baseline and
\* the elevated days of a completed shift
C16_Witness ==
    /\ tempEval # NotCalled
    /\ tempEval.value.isShiftComplete
    /\ \E k \in 1..Len(entries) :
           /\ entries[k].temperatureExcluded
           /\ entries[k].temperature > tempEval.value.coverLineTemp
           /\ entries[k].cycleDay < tempEval.value.higherTempDays[1]

\* the entries up to the n-th
FirstEntries(es, n) == SubSeq(es, 1, n)

\* C29: stability of a detected shift: when evaluateTemperatureShift reports
\* a complete shift on a list, it reports a complete shift with the same
\* coverline, elevated days and exception on every list that continues it
\* with entries of later days.
C29_ShiftIsStable ==
    tempEval # NotCalled =>
        \A n \in 1..Len(entries) :
            LET before == evaluateTemperatureShift(FirstEntries(entries, n))
                r == tempEval.value
            IN  before.isShiftComplete
                    => /\ r.isShiftComplete
                       /\ r.coverLineTemp = before.coverLineTemp
                       /\ r.higherTempDays = before.higherTempDays
                       /\ r.exceptionUsed = before.exceptionUsed

\* a shift complete on the first nine readings, followed by a tenth reading
\* that with the two before it lies above the six readings before them
C29_Witness ==
    /\ tempEval # NotCalled
    /\ Len(Readings(entries)) = 10
    /\ Len(entries) = 10
    /\ evaluateTemperatureShift(FirstEntries(entries, 9)).isShiftComplete
    /\ tempEval.value.isShiftComplete
    /\ tempEval.value.higherTempDays = <<7, 8, 9>>
    /\ \A k \in 8..10 : \A j \in 2..7 : entries[k].temperature > entries[j].temperature

-----------------------------------------------------------------------------
(* Properties of the fertility status, under Spec                          *)

\* the last infertile day the cycle start resolver gives for the state
LastInfertileDay == determineCycleStart(profile, entries).lastInfertileDay

TempShift == evaluateTemperatureShift(entries)

MucusShift == evaluateMucusShift(entries)

IsPostOvulationInfertile(st) == st.status = "infertile" /\ st.phase = "post-ovulation"

IsFertilePhase(st) == st.status = "fertile" /\ st.phase = "fertile"

LaterOf(a, b) == IF a > b THEN a ELSE b

\* the largest recorded cycle day
LastRecordedDay(es) ==
    CHOOSE d \in {es[k].cycleDay : k \in 1..Len(es)} : \A k \in 1..Len(es) : es[k].cycleDay <= d

\* C1: with the temperature shift complete by the main rule (third elevated
\* day T) and the mucus shift complete (peak day P), a day beyond the last
\* infertile day is infertile/post-ovulation from max(T, P + 3) on and
\* fertile/fertile before.
C1_WhicheverComesLast ==
    (/\ status # NotCalled
     /\ TempShift.isShiftComplete
     /\ TempShift.exceptionUsed = "none"
     /\ MucusShift.isShiftComplete
     /\ currentDay > LastInfertileDay)
        => IF currentDay >= LaterOf(TempShift.higherTempDays[3], MucusShift.peakDay + 3)
           THEN IsPostOvulationInfertile(status.value)
           ELSE IsFertilePhase(status.value)

\* temperature complete on day 9, mucus complete on day 10 (peak day 7): day 9
\* is still fertile
C1_Witness ==
    /\ status # NotCalled
    /\ TempShift.isShiftComplete
    /\ TempShift.exceptionUsed = "none"
    /\ TempShift.higherTempDays[3] = 9
    /\ MucusShift.isShiftComplete
    /\ MucusShift.peakDay = 7
    /\ currentDay = 9
    /\ IsFertilePhase(status.value)

\* C2: infertile/post-ovulation is returned only with both evaluations
\* complete, and a day beyond the last infertile day with either evaluation
\* incomplete is fertile/fertile.
C2_DoubleCheck ==
    status # NotCalled =>
        /\ IsPostOvulationInfertile(status.value)
               => TempShift.isShiftComplete /\ MucusShift.isShiftComplete
        /\ (/\ currentDay > LastInfertileDay
            /\ ~TempShift.isShiftComplete \/ ~MucusShift.isShiftComplete)
               => IsFertilePhase(status.value)

\* a relapse keeps a day after the completed temperature shift fertile
C2_Witness ==
    /\ status # NotCalled
    /\ TempShift.isShiftComplete
    /\ TempShift.exceptionUsed = "none"
    /\ MucusShift.peakQualityReturned
    /\ currentDay > LastInfertileDay
    /\ currentDay >= TempShift.higherTempDays[3]
    /\ currentDay >= MucusShift.peakDay + 3
    /\ IsFertilePhase(status.value)

\* C3: with the shift complete by Exception 1 and the mucus complete-day not
\* later than the third elevated day, the status is infertile/post-ovulation
\* exactly from the day of the fourth elevated reading on (the third elevated
\* day is still fertile). Violated by the code: the complete-day is the third
\* recorded day whenever three days are recorded.
C3_FourthDayCompletesException1 ==
    (/\ status # NotCalled
     /\ TempShift.isShiftComplete
     /\ TempShift.exceptionUsed = "first"
     /\ MucusShift.isShiftComplete
     /\ MucusShift.peakDay + 3 <= TempShift.higherTempDays[3]
     /\ currentDay > LastInfertileDay)
        => (IsPostOvulationInfertile(status.value)
                <=> currentDay >= TempShift.higherTempDays[4])

\* C4: with both evaluations complete the fertility-ends-day is a cycle day no
\* later than the last recorded day, never the unbounded 999, and after a shift
\* by Exception 2 a day from max(day of the window's third reading, P + 3) on
\* is infertile/post-ovulation. Violated by the code: Exception 2 records two
\* days, and fewer than three recorded days give 999.
C4_EndsDayIsACycleDay ==
    (/\ status # NotCalled
     /\ TempShift.isShiftComplete
     /\ MucusShift.isShiftComplete
     /\ currentDay > LastInfertileDay)
        => LET data == status.value.dataPointsUsed
               days == TempShift.higherTempDays
           IN  /\ \E k \in 1..Len(data) :
                      /\ data[k].field = "fertilityEndsDay"
                      /\ data[k].value <= LastRecordedDay(entries)
                      /\ data[k].value # UnboundedDay
               /\ (/\ TempShift.exceptionUsed = "second"
                   /\ currentDay >= LaterOf(days[Len(days)], MucusShift.peakDay + 3))
                      => IsPostOvulationInfertile(status.value)

\* the entry of the evaluated day carries an observation other than 'd'
TodayNonDry ==
    \E k \in 1..Len(entries) :
        /\ entries[k].cycleDay = currentDay
        /\ entries[k].mucusObservation \notin {NoMucus, "d"}

StartRules == {"START_5DAY", "START_MINUS8", "START_MINUS20"}

C28_NeverFertilePreOvulation ==
    status # NotCalled =>
        /\ ~(status.value.status = "fertile" /\ status.value.phase = "pre-ovulation")
        /\ status.value.phase = "pre-ovulation" => status.value.status = "infertile"

\* the first non-dry observation is on day 5: the last infertile day moved to
\* 4, and day 5 itself is fertile with phase fertile
C28_Witness ==
    /\ status # NotCalled
    /\ currentDay = 5
    /\ TodayNonDry
    /\ LastInfertileDay = 4
    /\ IsFertilePhase(status.value)

\* the entries of the days up to day d
RecordedUpTo(es, d) == LET NotLater(e) == e.cycleDay <= d IN SelectSeq(es, NotLater)

\* C26: no use of future data: when the status of day D is
\* infertile/post-ovulation, it is infertile/post-ovulation as well when
\* computed from the entries of the days up to D alone. Violated by the
\* code: with Exception 1 the verdict of the third elevated day rests on the
\* reading of the fourth.
C26_NoFutureData ==
    (status # NotCalled /\ IsPostOvulationInfertile(status.value)) =>
        IsPostOvulationInfertile(
            calculateFertilityStatus(RecordedUpTo(entries, currentDay), currentDay, profile))

\* the warnings of a status, as a set
WarningsOf(st) == {st.warnings[k] : k \in 1..Len(st.warnings)}

\* C27: every call returns status fertile or infertile with a phase, never
\* 'indeterminate'; and when the temperature axis cannot be evaluated (fewer
\* than 9 valid readings) on a day beyond the last infertile day, the
\* result is fertile with phase fertile and the no-temperature-shift
\* warning.
C27_NeverIndeterminate ==
    status # NotCalled =>
        LET st == status.value
        IN  /\ st.status \in {"fertile", "infertile"}
            /\ st.phase \in {"pre-ovulation", "fertile", "post-ovulation"}
            /\ (Len(Readings(entries)) < LOW_TEMP_COUNT + HIGH_TEMP_COUNT
                 /\ currentDay > LastInfertileDay)
                    => /\ IsFertilePhase(st)
                       /\ "NO_TEMP_SHIFT" \in WarningsOf(st)

\* a day beyond the last infertile day evaluated on 8 readings, with the
\* mucus shift complete: fertile on the missing temperature shift alone
C27_Witness ==
    /\ status # NotCalled
    /\ Len(Readings(entries)) = 8
    /\ currentDay = 8
    /\ currentDay > LastInfertileDay
    /\ MucusShift.isShiftComplete
    /\ IsFertilePhase(status.value)
    /\ "NO_TEMP_SHIFT" \in WarningsOf(status.value)

-----------------------------------------------------------------------------
(* Properties of the cycle start resolver, under SpecStart                 *)

History == profile.earliestFirstHigherTemps

\* a past cycle had its first higher reading on or before day 12
EarlyDayRecorded == \E k \in 1..Len(History) : History[k] <= 12

Minus8Applicable == Len(History) >= 12 \/ EarlyDayRecorded

EarliestRecorded == CHOOSE d \in {History[k] : k \in 1..Len(History)} :
                        \A k \in 1..Len(History) : d <= History[k]

FlooredAt0(n) == IF n < 0 THEN 0 ELSE n

Minus8Value == FlooredAt0(EarliestRecorded - 8)

Minus20Value == FlooredAt0(profile.shortestCycleLength - 20)

\* the cycle days that carry a fertility-indicating observation
IndicatingDays(es) ==
    {es[k].cycleDay : k \in {j \in 1..Len(es) : es[j].mucusObservation \notin {NoMucus, "d"}}}

\* min(value, d - 1) for the earliest indicating day d, value without one
Overridden(value, es) ==
    IF IndicatingDays(es) = {} THEN value
    ELSE LET d == CHOOSE x \in IndicatingDays(es) : \A y \in IndicatingDays(es) : x <= y
         IN  IF d - 1 < value THEN d - 1 ELSE value

\* the value of the strategy the result names, before the mucus override
StrategyValue(rule) ==
    CASE rule = "five-day" -> 5
      [] rule = "minus-8" -> Minus8Value
      [] rule = "minus-20" -> Minus20Value

\* C17: whichever strategy is adopted, lastInfertileDay is min(strategy value,
\* d - 1) for the earliest day d with a fertility-indicating observation (any
\* category but 'd'), no such observation lies on or before it, it is >= 0 and
\* fertilityStartsDay is one more; Five-Day with mucus on day 3 gives 2 and 3.
C17_MucusOverride ==
    cycleStartResult # NotCalled =>
        LET r == cycleStartResult.value
        IN  /\ r.lastInfertileDay = Overridden(StrategyValue(r.rule), entries)
            /\ \A d \in IndicatingDays(entries) : d > r.lastInfertileDay
            /\ r.lastInfertileDay >= 0
            /\ r.fertilityStartsDay = r.lastInfertileDay + 1
            /\ (/\ r.rule = "five-day"
                /\ IndicatingDays(entries) # {}
                /\ \A d \in IndicatingDays(entries) : d >= 3
                /\ 3 \in IndicatingDays(entries))
                   => r.lastInfertileDay = 2 /\ r.fertilityStartsDay = 3

\* Five-Day with 'nothing felt or seen' first observed on day 3
C17_Witness ==
    /\ cycleStartResult # NotCalled
    /\ cycleStartResult.value.rule = "five-day"
    /\ Len(entries) >= 3
    /\ entries[1].mucusObservation = "d"
    /\ entries[2].mucusObservation = "d"
    /\ entries[3].mucusObservation = "o"
    /\ cycleStartResult.value.lastInfertileDay = 2
    /\ cycleStartResult.value.fertilityStartsDay = 3

\* C18: applyMinus8Rule returns null exactly when the history has fewer than
\* 12 entries and none is <= 12, and max(0, min(history) - 8) otherwise;
\* determineCycleStart then reports 'minus-8' with that value (before the
\* mucus override), whatever the cycle count and the shortest cycle length.
C18_Minus8 ==
    cycleStartResult # NotCalled =>
        LET r == cycleStartResult.value
        IN  /\ applyMinus8Rule(profile) = NotApplicable <=> ~Minus8Applicable
            /\ Minus8Applicable
                   => /\ applyMinus8Rule(profile) = Minus8Value
                      /\ r.rule = "minus-8"
                      /\ r.lastInfertileDay = Overridden(Minus8Value, entries)

\* one recorded cycle with an early day adopts Minus-8 although the Five-Day
\* count is not reached and a Minus-20 value of 6 is on offer
C18_Witness ==
    /\ cycleStartResult # NotCalled
    /\ History = <<10>>
    /\ profile.cycleCount = 0
    /\ profile.shortestCycleLength = 26
    /\ Len(entries) = MaxStartDay
    /\ IndicatingDays(entries) = {4}
    /\ cycleStartResult.value.rule = "minus-8"
    /\ cycleStartResult.value.lastInfertileDay = 2

\* C19: with Minus-8 inapplicable, 'minus-20' with max(0, shortestCycleLength
\* - 20) is adopted whenever the profile has a shortest cycle length and that
\* value is greater than 5, and 'five-day' is reported in every other case.
\* Violated by the code: Minus-20 is only looked at when canUseFiveDayRule
\* holds.
C19_Minus20 ==
    (cycleStartResult # NotCalled /\ ~Minus8Applicable) =>
        LET r == cycleStartResult.value
        IN  IF profile.shortestCycleLength # NoLength /\ Minus20Value > 5
            THEN /\ r.rule = "minus-20"
                 /\ r.lastInfertileDay = Overridden(Minus20Value, entries)
            ELSE r.rule = "five-day"

\* C20: 'five-day' is reported only for profiles with fewer than 12 cycles and
\* no recorded day <= 12, and a profile with 12 or more cycles gets 'minus-8'.
\* Violated by the code: with 12 cycles counted and Minus-8 inapplicable the
\* initial 'five-day' is returned.
C20_FiveDayOnlyWhenUsable ==
    cycleStartResult # NotCalled =>
        LET r == cycleStartResult.value
        IN  /\ r.rule = "five-day" => (profile.cycleCount < 12 /\ ~EarlyDayRecorded)
            /\ profile.cycleCount >= 12 => r.rule = "minus-8"

-----------------------------------------------------------------------------
(* Properties of repeated calls, under SpecPure                            *)

\* the list is not in the order of its cycle days
OutOfOrder(es) == \E k \in 1..(Len(es) - 1) : es[k].cycleDay > es[k + 1].cycleDay

-----------------------------------------------------------------------------
(* Properties of the rolling history, under SpecHistory                    *)

\* the last n elements of a list, in their order
MostRecent(n, s) == IF Len(s) <= n THEN s ELSE SubSeq(s, Len(s) - n + 1, Len(s))

\* C23: after any sequence of updateEarliestFirstHigherTemp calls from a
\* profile with a history of at most 12 days, the history has at most 12
\* days and is the most recent (up to 12) recorded days in insertion order;
\* each call raises cycleCount by exactly 1 and leaves the profile passed
\* in as it was.
C23_RollingHistory ==
    [][/\ Len(profile'.earliestFirstHigherTemps) <= 12
       /\ profile'.earliestFirstHigherTemps = MostRecent(12, recorded')
       /\ profile'.cycleCount = profile.cycleCount + 1
       /\ passedIn' = Returned(profile)]_vars

\* a call on a full history of 12 days dropped its oldest day and kept the
\* new one
C23_Witness ==
    /\ passedIn # NotCalled
    /\ Len(passedIn.value.earliestFirstHigherTemps) = 12
    /\ Len(recorded) > 12
    /\ Len(profile.earliestFirstHigherTemps) = 12
    /\ profile.earliestFirstHigherTemps[12] = recorded[Len(recorded)]
    /\ profile.earliestFirstHigherTemps # passedIn.value.earliestFirstHigherTemps
    /\ profile.cycleCount = passedIn.value.cycleCount + 1

-----------------------------------------------------------------------------
(* Properties of the entries table, under SpecSave                         *)

\* C24: after any sequence of saveEntry calls, also calls for the same date
\* whose lookup and write steps interleave, the entries table holds at most
\* one entry per date.
C24_OneEntryPerDate ==
    \A e, f \in dbEntries : e.date = f.date => e = f

-----------------------------------------------------------------------------
(* Properties of the cycles table, under SpecCycle                         *)

\* no createCycle call is between its first and its last step
NoCycleCallInProgress == \A c \in Callers : cycleCalls[c].pc \in {"idle", "done"}

\* C30: after any sequence of createCycle calls, also calls whose steps
\* interleave, at most one cycle has no endDate; and once the calls have
\* returned, cycleCount has risen by one per call and the cycles are
\* numbered 1 up to that count.
C30_OneOpenCycle ==
    /\ Cardinality(OpenCycles(dbCycles)) <= 1
    /\ NoCycleCallInProgress =>
           /\ profile.cycleCount = Cardinality(dbCycles)
           /\ {cy.cycleNumber : cy \in dbCycles} = 1..Cardinality(dbCycles)

====
